---- MODULE Spec2Model ----
(***************************************************************************)
(* A model of the configuration loader: the Config class (expression       *)
(* evaluation, memo cache "bank", dependency graph, get/raw/hash) and the   *)
(* loader functions exists/load/write with their process-wide ConfigCache.  *)
(*                                                                          *)
(* JavaScript strings are TLA+ strings; characters are strings of length 1  *)
(* and positions are 0-based as in the source.  JavaScript values are       *)
(* tagged records (field k): "undef", "str", "num", "bool", "obj", and      *)
(* "ref" for a reference to an object that lives in the configuration       *)
(* tree (objects have identity: get() hands out the tree's own objects).    *)
(* A thrown exception is a value of kind "throw".                           *)
(***************************************************************************)
EXTENDS Integers, Sequences, FiniteSets, TLC

(***************************************************************************)
(* String primitives of the JavaScript runtime used by the source.         *)
(***************************************************************************)
charAt(s, i) == IF i >= 0 /\ i < Len(s) THEN SubSeq(s, i + 1, i + 1) ELSE ""

isSpace(c) == c \in {" ", "\t", "\n", "\r"}

Digits == "0123456789"
LowerCase == "abcdefghijklmnopqrstuvwxyz"
UpperCase == "ABCDEFGHIJKLMNOPQRSTUVWXYZ"

\* the least and the greatest index of a set of indices (-1 when there is none)
firstOf(indices) ==
  IF indices = {} THEN -1 ELSE CHOOSE i \in indices : \A j \in indices : i <= j
lastOf(indices) ==
  IF indices = {} THEN -1 ELSE CHOOSE i \in indices : \A j \in indices : j <= i

posIn(c, alphabet, i) == firstOf({j \in i..(Len(alphabet) - 1) : charAt(alphabet, j) = c})

isDigit(c) == Len(c) = 1 /\ posIn(c, Digits, 0) >= 0
isAlpha(c) == Len(c) = 1 /\ (posIn(c, LowerCase, 0) >= 0 \/ posIn(c, UpperCase, 0) >= 0)

Min(a, b) == IF a < b THEN a ELSE b
Max(a, b) == IF a > b THEN a ELSE b

\* String.prototype.slice(start) and slice(start, end); negative positions
\* count from the end of the string.
sliceIdx(s, i) == IF i < 0 THEN Max(Len(s) + i, 0) ELSE Min(i, Len(s))
slice(s, a, b) ==
  LET from == sliceIdx(s, a)
      to == sliceIdx(s, b)
  IN IF to <= from THEN "" ELSE SubSeq(s, from + 1, to)
sliceFrom(s, a) == slice(s, a, Len(s))

\* the index of the first character at or after i that is not white space
skipSpaces(s, i) ==
  LET found == {j \in i..Len(s) : ~isSpace(charAt(s, j))}
  IN IF found = {} THEN i ELSE firstOf(found)

trimStart(s) == sliceFrom(s, skipSpaces(s, 0))

trimEnd(s) == slice(s, 0, lastOf({j \in 0..Len(s) : j = 0 \/ ~isSpace(charAt(s, j - 1))}))

trim(s) == trimEnd(trimStart(s))

startsWithAt(s, p, i) == i >= 0 /\ i + Len(p) <= Len(s) /\ slice(s, i, i + Len(p)) = p
startsWith(s, p) == startsWithAt(s, p, 0)
endsWith(s, p) == Len(p) <= Len(s) /\ sliceFrom(s, Len(s) - Len(p)) = p

indexOfFrom(s, p, i) == firstOf({j \in i..(Len(s) - Len(p)) : startsWithAt(s, p, j)})

indexOf(s, p) == indexOfFrom(s, p, 0)
includes(s, p) == indexOf(s, p) >= 0

toLowerChar(c) ==
  LET u == posIn(c, UpperCase, 0) IN IF u >= 0 THEN charAt(LowerCase, u) ELSE c

RECURSIVE toLowerCase(_)
toLowerCase(s) ==
  IF Len(s) <= 1 THEN toLowerChar(s)
  ELSE toLowerCase(slice(s, 0, Len(s) \div 2)) \o toLowerCase(sliceFrom(s, Len(s) \div 2))

RECURSIVE split(_, _)
split(s, sep) ==
  LET i == indexOf(s, sep)
  IN IF i < 0 THEN <<s>> ELSE <<slice(s, 0, i)>> \o split(sliceFrom(s, i + Len(sep)), sep)

RECURSIVE join(_, _)
join(parts, sep) ==
  IF Len(parts) = 0 THEN ""
  ELSE IF Len(parts) = 1 THEN parts[1]
  ELSE parts[1] \o sep \o join(Tail(parts), sep)

hasSpace(s) == \E i \in 0..(Len(s) - 1) : isSpace(charAt(s, i))

RECURSIVE natToString(_)
natToString(n) ==
  IF n < 10 THEN charAt(Digits, n) ELSE natToString(n \div 10) \o charAt(Digits, n % 10)

allDigits(s) == \A i \in 0..(Len(s) - 1) : isDigit(charAt(s, i))

RECURSIVE digitsValue(_, _)
digitsValue(s, acc) ==
  IF Len(s) = 0 THEN acc
  ELSE digitsValue(sliceFrom(s, 1), acc * 10 + posIn(charAt(s, 0), Digits, 0))

(***************************************************************************)
(* JavaScript values.                                                       *)
(***************************************************************************)
Undef == [k |-> "undef"]
Str(s) == [k |-> "str", s |-> s]
Num(n) == [k |-> "num", n |-> n]
Bool(b) == [k |-> "bool", b |-> b]
Obj(f) == [k |-> "obj", f |-> f]
Ref(p) == [k |-> "ref", p |-> p]
EmptyObject == Obj(<<>>)

isStr(v) == v.k = "str"
isThrow(v) == v.k = "throw"

\* ToBoolean: undefined, '', 0 and false are falsy; objects are truthy
truthy(v) ==
  CASE v.k = "undef" -> FALSE
    [] v.k = "str" -> v.s # ""
    [] v.k = "num" -> v.n # 0
    [] v.k = "bool" -> v.b
    [] OTHER -> TRUE

\* ToString, as applied by String.prototype.replace to a callback's result
\* and by template literals
toString(v) ==
  CASE v.k = "str" -> v.s
    [] v.k = "num" -> natToString(v.n)
    [] v.k = "bool" -> (IF v.b THEN "true" ELSE "false")
    [] v.k = "undef" -> "undefined"
    [] OTHER -> "[object Object]"

\* Number(value): a finite number for a string of decimal digits (0 for
\* the blank string), NaN (ok = FALSE) for every other string of the model
toNumber(v) ==
  CASE v.k = "num" -> [ok |-> TRUE, n |-> v.n]
    [] v.k = "bool" -> [ok |-> TRUE, n |-> IF v.b THEN 1 ELSE 0]
    [] v.k = "str" ->
         (IF trim(v.s) = "" THEN [ok |-> TRUE, n |-> 0]
          ELSE IF allDigits(trim(v.s)) THEN [ok |-> TRUE, n |-> digitsValue(trim(v.s), 0)]
          ELSE [ok |-> FALSE, n |-> 0])
    [] OTHER -> [ok |-> FALSE, n |-> 0]

\* v == '' (loose equality with the empty string)
looseEqualsEmpty(v) ==
  CASE v.k = "str" -> v.s = ""
    [] v.k = "num" -> v.n = 0
    [] v.k = "bool" -> ~v.b
    [] OTHER -> FALSE

\* left == right (loose equality) for the primitives of the model
looseEquals(a, b) ==
  IF a.k = b.k THEN a = b
  ELSE IF a.k \in {"undef", "obj", "ref"} \/ b.k \in {"undef", "obj", "ref"} THEN FALSE
  ELSE toNumber(a).ok /\ toNumber(b).ok /\ toNumber(a).n = toNumber(b).n

(***************************************************************************)
(* class Throwable (name, message, hint)                                    *)
(***************************************************************************)
Throwable(name, message, hint) ==
  IF hint = "" \/ trim(hint) = ""
  THEN [k |-> "throw", name |-> name, message |-> message]
  ELSE [k |-> "throw", name |-> name, message |-> message, hint |-> hint]

\* what the engine throws when the call stack is exhausted
StackOverflow == [k |-> "throw", name |-> "RangeError", message |-> "Maximum call stack size exceeded."]
\* what strict-mode code throws when it assigns a property of a primitive
PrimitiveAssign == [k |-> "throw", name |-> "TypeError", message |-> "Attempted to assign to readonly property."]

(***************************************************************************)
(* namespace Utils                                                          *)
(***************************************************************************)
ensureObject(val, fallback) == IF val.k \in {"obj", "ref"} THEN val ELSE fallback

NoNewline(s) == ~includes(s, "\n") /\ ~includes(s, "\r")

\* str.replace(/^\((.*)\)$/, '$1').trim()
trimParens(str) ==
  IF Len(str) >= 2 /\ startsWith(str, "(") /\ endsWith(str, ")") /\ NoNewline(str)
  THEN trim(slice(str, 1, -1)) ELSE trim(str)

\* str.replace(/^(['"])(.*)\1$/, '$2').trim() on a string
trimQuotesStr(str) ==
  IF /\ Len(str) >= 2
     /\ charAt(str, 0) \in {"'", "\""}
     /\ charAt(str, Len(str) - 1) = charAt(str, 0)
     /\ NoNewline(str)
  THEN trim(slice(str, 1, -1)) ELSE trim(str)

trimQuotes(v) == IF v.k # "str" THEN v ELSE Str(trimQuotesStr(v.s))

\* JSON.parse(value) yields an object only for a JSON object or array text;
\* no string of the model is one ("{{" never opens a JSON text), so
\* ensureObject(JSON.parse(value), value), or the catch, leaves the value.
parsePrimitiveValue(value) ==
  IF value.k = "str" /\ trim(value.s) # "" THEN
    LET lower == toLowerCase(trim(value.s))
    IN IF lower \in {"true", "false"} THEN Bool(lower = "true")
       ELSE IF toNumber(value).ok THEN Num(toNumber(value).n)
       ELSE value
  ELSE value

RECURSIVE scanParenBlock(_, _, _, _, _)
scanParenBlock(str, i, depth, block, started) ==
  IF i >= Len(str) THEN <<block, i + 1>>
  ELSE
    LET char == charAt(str, i)
        depth1 == IF char = "(" THEN depth + 1 ELSE depth
        started1 == started \/ char = "("
        depth2 == IF char = ")" THEN depth1 - 1 ELSE depth1
        block1 == block \o char
    IN IF started1 /\ depth2 = 0 THEN <<block1, i + 1>>
       ELSE scanParenBlock(str, i + 1, depth2, block1, started1)

findBalancedParenBlock(str, startIdx) == scanParenBlock(str, startIdx, 0, "", FALSE)

(***************************************************************************)
(* The regular expressions of the source, matched as the engine matches     *)
(* them (first alternative, greedy or lazy quantifier, backtracking).       *)
(***************************************************************************)
NoMatch == <<>>

\* /^(?!if\s+)\s*(?<left>[\s\S]+?)\s*\?\?\s*(?<right>[\s\S]+?)\s*$/ on a
\* trimmed content: the shortest left of at least one character that is
\* followed by optional white space, "??" and at least one more character.
nullishLeftAt(content, e) ==
  LET q == skipSpaces(content, e)
  IN startsWithAt(content, "??", q) /\ q + 2 < Len(content)

nullishLeftEnd(content, from) ==
  firstOf({e \in from..(Len(content) - 1) : nullishLeftAt(content, e)})

nullishRight(rest) == IF trim(rest) = "" THEN sliceFrom(rest, Len(rest) - 1) ELSE trim(rest)

nullishCoalesceRegex(content) ==
  IF startsWith(content, "if") /\ isSpace(charAt(content, 2)) THEN NoMatch
  ELSE LET e == nullishLeftEnd(content, 1)
           q == skipSpaces(content, e)
       IN IF e < 0 THEN NoMatch
          ELSE <<slice(content, 0, e), nullishRight(sliceFrom(content, q + 2))>>

\* \s+then\s+\( at position i: the index after the "(" or -1
thenParenAt(content, i) ==
  LET t == skipSpaces(content, i)
      p == skipSpaces(content, t + 4)
  IN IF /\ t > i
        /\ toLowerCase(slice(content, t, t + 4)) = "then"
        /\ p > t + 4
        /\ charAt(content, p) = "("
     THEN p + 1 ELSE -1

ifCondEnd(content, from) ==
  firstOf({c \in from..(Len(content) - 1) :
             charAt(content, c) = ")" /\ thenParenAt(content, c + 1) >= 0})

\* /^if\s+\(([\s\S]+?)\)\s+then\s+\(/i : <<length of the match, condition>>
ifThenElseRegex(content) ==
  LET p == skipSpaces(content, 2)
      c == ifCondEnd(content, p + 2)
  IN IF /\ toLowerCase(slice(content, 0, 2)) = "if"
        /\ p > 2
        /\ charAt(content, p) = "("
        /\ c >= 0
     THEN <<thenParenAt(content, c + 1), slice(content, p + 1, c)>>
     ELSE NoMatch

ConditionOperators == <<"equals", "startswith", "endswith", "contains", ">", ">=", "<", "<=">>

Quotes == {"'", "\""}

\* (['"].*?['"]|[^\s]+)\s*$ at position r
closingQuote(s, from) ==
  LET lineEnd == firstOf({j \in from..Len(s) : j = Len(s) \/ charAt(s, j) \in {"\n", "\r"}})
  IN firstOf({j \in from..(lineEnd - 1) :
                charAt(s, j) \in Quotes /\ trim(sliceFrom(s, j + 1)) = ""})

opRight(s, r) ==
  LET j == closingQuote(s, r + 1)
      rest == trimEnd(sliceFrom(s, r))
  IN IF charAt(s, r) \in Quotes /\ j >= 0 THEN <<slice(s, r, j + 1)>>
     ELSE IF rest # "" /\ ~hasSpace(rest) THEN <<rest>>
     ELSE NoMatch

RECURSIVE opTry(_, _, _, _)
opTry(s, start, e, n) ==
  IF n > Len(ConditionOperators) THEN NoMatch
  ELSE LET op == ConditionOperators[n]
           q == skipSpaces(s, e)
           right == opRight(s, skipSpaces(s, q + Len(op)))
       IN IF startsWithAt(s, op, q) /\ right # NoMatch
          THEN <<slice(s, start, e), op, right[1]>>
          ELSE opTry(s, start, e, n + 1)

RECURSIVE opLeftToken(_, _, _)
opLeftToken(s, start, e) ==
  IF e <= start THEN NoMatch
  ELSE LET m == opTry(s, start, e, 1)
       IN IF m # NoMatch THEN m ELSE opLeftToken(s, start, e - 1)

nonSpaceEnd(s, i) ==
  LET found == {j \in i..Len(s) : j = Len(s) \/ isSpace(charAt(s, j))}
  IN IF found = {} THEN i ELSE firstOf(found)

\* ^\s*([^\s]+|\([^\)]+\))\s*(equals|...|<=)\s*(['"].*?['"]|[^\s]+)\s*$
opRegex(s) ==
  LET start == skipSpaces(s, 0)
      token == opLeftToken(s, start, nonSpaceEnd(s, start))
      close == indexOfFrom(s, ")", start + 1)
  IN IF token # NoMatch THEN token
     ELSE IF charAt(s, start) = "(" /\ close >= start + 2 THEN opTry(s, start, close + 1, 1)
     ELSE NoMatch

\* /^\$([a-zA-Z_][a-zA-Z0-9_\.]*)/ at position i: the end of the match or -1
isNameStart(c) == isAlpha(c) \/ c = "_"
isNameChar(c) == isAlpha(c) \/ isDigit(c) \/ c = "_" \/ c = "."

nameEnd(s, i) ==
  LET found == {j \in i..Len(s) : ~isNameChar(charAt(s, j))}
  IN IF found = {} THEN i ELSE firstOf(found)

variableAt(s, i) ==
  IF charAt(s, i) = "$" /\ isNameStart(charAt(s, i + 1)) THEN nameEnd(s, i + 2) ELSE -1

\* /(\{\{[\s\S]+?\}\})/ at position i: the end of the match or -1
directiveAt(s, i) ==
  LET j == indexOfFrom(s, "}}", i + 3)
  IN IF startsWithAt(s, "{{", i) /\ j >= 0 THEN j + 2 ELSE -1

\* function tokenizeCondition(str)
RECURSIVE tokenizeLoop(_, _, _, _, _)
tokenizeLoop(str, i, current, depth, tokens) ==
  LET flushed == IF trim(current) # "" THEN Append(tokens, trim(current)) ELSE tokens
      token == trimEnd(toLowerCase(slice(str, i, i + 3)))
  IN IF i >= Len(str) THEN flushed
     ELSE IF charAt(str, i) = "(" THEN tokenizeLoop(str, i + 1, current \o "(", depth + 1, tokens)
     ELSE IF charAt(str, i) = ")" THEN tokenizeLoop(str, i + 1, current \o ")", depth - 1, tokens)
     ELSE IF depth = 0 /\ token = "and" /\ isSpace(charAt(str, i - 1)) /\ isSpace(charAt(str, i + 3))
       THEN tokenizeLoop(str, i + 3, "", depth, Append(flushed, token))
     ELSE IF depth = 0 /\ token = "or" /\ isSpace(charAt(str, i - 1)) /\ isSpace(charAt(str, i + 2))
       THEN tokenizeLoop(str, i + 2, "", depth, Append(flushed, token))
     ELSE tokenizeLoop(str, i + 1, current \o charAt(str, i), depth, tokens)

tokenizeCondition(str) == tokenizeLoop(str, 0, "", 0, <<>>)

\* the scan of evalLogical that decides whether the outer parentheses of
\* cond enclose all of it
RECURSIVE outerParensBalanced(_, _, _)
outerParensBalanced(cond, i, depth) ==
  IF i >= Len(cond) THEN TRUE
  ELSE LET d1 == IF charAt(cond, i) = "(" THEN depth + 1
                 ELSE IF charAt(cond, i) = ")" THEN depth - 1 ELSE depth
       IN IF d1 = 0 /\ i < Len(cond) - 1 THEN FALSE
          ELSE outerParensBalanced(cond, i + 1, d1)

\* /^not\s+/i : the length of the match or -1
notPrefix(cond) ==
  LET p == skipSpaces(cond, 3)
  IN IF toLowerCase(slice(cond, 0, 3)) = "not" /\ p > 3 THEN p ELSE -1

(***************************************************************************)
(* Bounds of the model.                                                     *)
(***************************************************************************)
\* frames the call stack holds before the engine throws RangeError
MaxStack == 12
\* calls made on one Config instance
MaxCalls == 2
\* nesting depth to which a returned structure is copied for comparison
ViewDepth == 4

(***************************************************************************)
(* State.                                                                   *)
(*   config, bank, dependencies : the private fields of one Config          *)
(*   env        : the process environment (Bun.env), fixed                   *)
(*   envReads   : how often each name of Bun.env has been read              *)
(*   tree       : the tree the constructor was given                         *)
(*   calls      : the public calls made so far, with what they returned      *)
(***************************************************************************)
VARIABLES config, bank, dependencies, env, envReads, tree, calls

configVars == <<config, bank, dependencies, env, envReads, tree, calls>>

(***************************************************************************)
(* State of the loader module.                                              *)
(*   files       : the artifact stored for each name@version, or NoFile     *)
(*   configDir   : whether the .config directory exists                     *)
(*   ConfigCache : the process-wide cache, name@version -> Config instance  *)
(*   temps       : the staged temporary file of each running write          *)
(*   procs       : the asynchronous calls in flight and where each one is   *)
(*   created     : how many Config instances load has constructed           *)
(***************************************************************************)
VARIABLES files, configDir, ConfigCache, temps, procs, created

loaderVars == <<files, configDir, ConfigCache, temps, procs, created>>

\* the mutable state a call threads through the evaluator
Ret(v, st) == [v |-> v, st |-> st]

\* const v = value; ...: a value is computed once and named in what follows
Bind(value, Rest(_)) == Rest(value)

countRead(reads, name) ==
  IF name \in DOMAIN reads THEN [reads EXCEPT ![name] = @ + 1] ELSE (name :> 1) @@ reads

RECURSIVE inSeq(_, _)
inSeq(x, seq) == Len(seq) > 0 /\ (Head(seq) = x \/ inSeq(x, Tail(seq)))

RECURSIVE seqToSet(_)
seqToSet(seq) == IF Len(seq) = 0 THEN {} ELSE {Head(seq)} \cup seqToSet(Tail(seq))

RECURSIVE mapTrim(_)
mapTrim(lines) == IF Len(lines) = 0 THEN <<>> ELSE <<trim(Head(lines))>> \o mapTrim(Tail(lines))

\* String.prototype.replace(pattern, replacement) with a string pattern
replaceFirst(s, pattern, replacement) ==
  LET i == indexOf(s, pattern)
  IN IF i < 0 THEN s ELSE slice(s, 0, i) \o replacement \o sliceFrom(s, i + Len(pattern))

(***************************************************************************)
(* The configuration tree as a heap: Ref(p) is the object stored at path p  *)
(* of the tree.                                                             *)
(***************************************************************************)
RECURSIVE rawNode(_, _)
rawNode(node, p) == IF Len(p) = 0 THEN node ELSE rawNode(node.f[Head(p)], Tail(p))

\* obj?.[key]; a property of a primitive is undefined for the keys of the model
getProp(cfg, obj, key) ==
  IF obj.k = "ref" THEN
    LET node == rawNode(cfg, obj.p)
    IN IF key \in DOMAIN node.f
       THEN (IF node.f[key].k = "obj" THEN Ref(Append(obj.p, key)) ELSE node.f[key])
       ELSE Undef
  ELSE Undef

RECURSIVE setAt(_, _, _, _)
setAt(node, p, key, val) ==
  IF Len(p) = 0 THEN Obj((key :> val) @@ node.f)
  ELSE Obj([node.f EXCEPT ![Head(p)] = setAt(@, Tail(p), key, val)])

RECURSIVE reducePath(_, _, _)
reducePath(cfg, obj, keys) ==
  IF Len(keys) = 0 THEN obj ELSE reducePath(cfg, getProp(cfg, obj, Head(keys)), Tail(keys))

\* #resolveConfigPath
resolveConfigPath(cfg, path) ==
  IF trim(path) = "" THEN Undef ELSE reducePath(cfg, Ref(<<>>), split(path, "."))

(***************************************************************************)
(* The evaluator.  Every method takes the state st = [config, bank, deps,   *)
(* reads] and the number d of stack frames left, and returns Ret(value,     *)
(* state); a thrown exception is a value of kind "throw" that every caller  *)
(* passes on.                                                               *)
(***************************************************************************)
NotAFunction == [k |-> "throw", name |-> "TypeError", message |-> "variable.startsWith is not a function"]

isDirective(v) == v.k = "str" /\ startsWith(trim(v.s), "{{") /\ endsWith(trim(v.s), "}}")

\* this.#method(...args): a call of one private method by another
RECURSIVE invoke(_, _, _, _)
RECURSIVE evalTokens(_, _, _, _, _, _)
RECURSIVE replaceDirectives(_, _, _, _, _)
RECURSIVE replaceVariables(_, _, _, _, _, _)

\* Bun.env[variable]?.trim()
envLookup(name) == IF name \in DOMAIN env THEN Str(trim(env[name])) ELSE Undef

\* #resolveVariable
resolveVariable(variable, st, d) ==
  IF d = 0 THEN Ret(StackOverflow, st)
  ELSE IF variable.k # "str" THEN Ret(NotAFunction, st)
  ELSE IF ~startsWith(variable.s, "$") THEN Ret(variable, st)
  ELSE
    LET name == sliceFrom(variable.s, 1)
        inTree == resolveConfigPath(st.config, name)
        st1 == IF inTree = Undef THEN [st EXCEPT !.reads = countRead(@, name)] ELSE st
        value == IF inTree = Undef THEN envLookup(name) ELSE inTree
    IN IF trim(name) = "" THEN Ret(Undef, st)
       ELSE IF isDirective(value) THEN invoke("evaluateLogicBlock", <<trim(value.s)>>, st1, d - 1)
       ELSE Ret(value, st1)

\* value ?? ''
orEmpty(v) == IF v = Undef THEN Str("") ELSE v

\* #evaluateNullishCoalesce
evaluateNullishCoalesce(content, st, d) ==
  IF d = 0 THEN Ret(StackOverflow, st)
  ELSE
    LET nullishMatch == nullishCoalesceRegex(content)
    IN IF nullishMatch = NoMatch THEN Ret(Undef, st)
       ELSE Bind(invoke("resolveVariable", <<Str(trimParens(trimParens(nullishMatch[1])))>>, st, d - 1),
                 LAMBDA l :
         IF isThrow(l.v) THEN l
         ELSE IF ~looseEqualsEmpty(orEmpty(l.v)) THEN Ret(orEmpty(l.v), l.st)
         ELSE Bind(invoke("resolveVariable", <<Str(trimParens(trimParens(nullishMatch[2])))>>, l.st, d - 1),
                   LAMBDA r :
           IF isThrow(r.v) THEN r
           ELSE IF ~looseEqualsEmpty(orEmpty(r.v)) THEN Ret(orEmpty(r.v), r.st)
           ELSE Ret(Undef, r.st)))

\* the switch of evalComparison over the operator
compare(operator, left, right) ==
  LET ln == toNumber(left)
      rn == toNumber(right)
      isNumeric == ln.ok /\ rn.ok
  IN CASE operator = "equals" -> looseEquals(left, right)
       [] operator = "startswith" -> startsWith(toString(left), toString(right))
       [] operator = "endswith" -> endsWith(toString(left), toString(right))
       [] operator = "contains" -> includes(toString(left), toString(right))
       [] operator = ">" -> isNumeric /\ ln.n > rn.n
       [] operator = ">=" -> isNumeric /\ ln.n >= rn.n
       [] operator = "<" -> isNumeric /\ ln.n < rn.n
       [] operator = "<=" -> isNumeric /\ ln.n <= rn.n
       [] OTHER -> FALSE

\* evaluate (closure of evalComparison):
\* this.#resolveVariable(Utils.trimQuotes(this.#evaluateLogicBlock(`{{ ${Utils.trimParens(str)} }}`)))
evaluate(str, st, d) ==
  Bind(invoke("evaluateLogicBlock", <<"{{ " \o trimParens(str) \o " }}">>, st, d - 1), LAMBDA block :
    IF isThrow(block.v) THEN block
    ELSE invoke("resolveVariable", <<trimQuotes(block.v)>>, block.st, d - 1))

\* evalComparison once the condition has matched opRegex
compareMatched(condMatch, st, d) ==
  LET left0 == trimQuotesStr(condMatch[1])
      right0 == trimQuotesStr(condMatch[3])
  IN IF (trim(left0) = "" /\ trim(right0) # "") \/ (trim(left0) # "" /\ trim(right0) = "")
       THEN Ret(Bool(FALSE), st)
     ELSE Bind(evaluate(left0, st, d), LAMBDA l :
       IF isThrow(l.v) THEN l
       ELSE Bind(evaluate(right0, l.st, d), LAMBDA r :
         IF isThrow(r.v) THEN r
         ELSE Ret(Bool(compare(condMatch[2], l.v, r.v)), r.st)))

\* evalComparison (closure of #evaluateIfElseLogic)
evalComparison(cond, st, d) ==
  IF d = 0 THEN Ret(StackOverflow, st)
  ELSE Bind(opRegex(trimParens(cond)), LAMBDA condMatch :
    IF condMatch = NoMatch THEN Ret(Bool(FALSE), st) ELSE compareMatched(condMatch, st, d))

\* the token loop of evalLogical; op = "" is the undefined operator
evalTokens(tokens, i, result, op, st, d) ==
  IF i > Len(tokens) THEN Ret(Bool(truthy(result)), st)
  ELSE IF tokens[i] \in {"and", "or"} THEN evalTokens(tokens, i + 1, result, tokens[i], st, d)
  ELSE IF ~truthy(result) \/ op = "and"
    THEN Bind(invoke("evalLogical", <<tokens[i]>>, st, d - 1), LAMBDA e :
           IF isThrow(e.v) THEN e ELSE evalTokens(tokens, i + 1, e.v, "", e.st, d))
  ELSE IF op = "or" THEN Ret(Bool(TRUE), st)
  ELSE evalTokens(tokens, i + 1, result, "", st, d)

\* !evalLogical(...)
negation(negated) ==
  IF isThrow(negated.v) THEN negated ELSE Ret(Bool(~negated.v.b), negated.st)

\* evalLogical (closure of #evaluateIfElseLogic)
evalLogical(cond0, st, d) ==
  IF d = 0 THEN Ret(StackOverflow, st)
  ELSE
    LET cond == trim(cond0)
        tokens == tokenizeCondition(cond)
    IN IF startsWith(cond, "(") /\ endsWith(cond, ")") /\ outerParensBalanced(cond, 0, 0)
         THEN invoke("evalLogical", <<slice(cond, 1, -1)>>, st, d - 1)
       ELSE IF notPrefix(cond) >= 0
         THEN negation(invoke("evalLogical", <<sliceFrom(cond, notPrefix(cond))>>, st, d - 1))
       ELSE IF Len(tokens) = 1 THEN invoke("evalComparison", <<tokens[1]>>, st, d - 1)
       ELSE evalTokens(tokens, 1, Undef, "", st, d)

\* return Utils.trimQuotes(this.#evaluateLogicBlock(...))
trimmedResult(block) ==
  IF isThrow(block.v) THEN block ELSE Ret(trimQuotes(block.v), block.st)

\* #evaluateIfElseLogic
evaluateIfElseLogic(content, st, d) ==
  IF d = 0 THEN Ret(StackOverflow, st)
  ELSE
    LET ifThenElse == ifThenElseRegex(content)
        trueScan == findBalancedParenBlock(content, ifThenElse[1] - 1)
        afterTrue == trim(sliceFrom(content, trueScan[2]))
        elseBlock == trim(sliceFrom(afterTrue, 4))
        falseScan == findBalancedParenBlock(elseBlock, 0)
    IN IF ifThenElse = NoMatch THEN Ret(Undef, st)
       ELSE IF ~startsWith(afterTrue, "else") THEN Ret(Undef, st)
       ELSE IF startsWith(elseBlock, "if") THEN invoke("evaluateIfElseLogic", <<elseBlock>>, st, d - 1)
       ELSE IF ~startsWith(elseBlock, "(") THEN Ret(Undef, st)
       ELSE Bind(invoke("evalLogical", <<ifThenElse[2]>>, st, d - 1), LAMBDA conditionResult :
         IF isThrow(conditionResult.v) THEN conditionResult
         ELSE trimmedResult(invoke("evaluateLogicBlock",
                <<"{{ " \o trim(IF conditionResult.v.b THEN slice(trueScan[1], 1, -1)
                                                        ELSE slice(falseScan[1], 1, -1)) \o " }}">>,
                conditionResult.st, d - 1)))

\* #evaluateLogicBlock
evaluateLogicBlock(input, st, d) ==
  IF d = 0 THEN Ret(StackOverflow, st)
  ELSE
    LET trimmed == join(mapTrim(split(trim(input), "\n")), " ")
        content == trim(slice(trimmed, 2, -2))
    IN IF ~startsWith(trimmed, "{{") \/ ~endsWith(trimmed, "}}") THEN Ret(Str(input), st)
       ELSE Bind(invoke("evaluateNullishCoalesce", <<content>>, st, d - 1), LAMBDA nullish :
         IF isThrow(nullish.v) THEN nullish
         ELSE IF nullish.v # Undef THEN Ret(trimQuotes(nullish.v), nullish.st)
         ELSE Bind(invoke("evaluateIfElseLogic", <<content>>, nullish.st, d - 1), LAMBDA ifElse :
           IF isThrow(ifElse.v) THEN ifElse
           ELSE IF ifElse.v # Undef THEN Ret(trimQuotes(ifElse.v), ifElse.st)
           ELSE Ret(Str(content), ifElse.st)))

\* a cycle error that names the chain without the revisited path
cycleErrorUnappended(chain, variable) ==
  Throwable("ReferenceError", "Circular dependency detected", join(chain, " -> "))

\* throw new Throwable('ReferenceError', `Circular dependency detected`, nextChain.join(' -> '))
cycleError(chain, variable) ==
  Throwable("ReferenceError", "Circular dependency detected", join(Append(chain, variable), " -> "))

\* the end of #resolveVariableChain: the dependencies of the variable, then
\* the cached value, or str when there is none
cachedOrStr(str, variable, chain, st) ==
  LET known == IF variable \in DOMAIN st.deps THEN st.deps[variable] ELSE {}
      st3 == IF Len(chain) > 0
             THEN [st EXCEPT !.deps = (variable :> (known \cup seqToSet(chain))) @@ @]
             ELSE st
      cached == st.bank[variable]
  IN IF cached = Undef THEN Ret(Str(str), st3) ELSE Ret(cached, st3)

\* this.#bank.set(variable, formatted)
banked(str, variable, chain, formatted) ==
  IF isThrow(formatted.v) THEN formatted
  ELSE cachedOrStr(str, variable, chain,
                   [formatted.st EXCEPT !.bank = (variable :> formatted.v) @@ @])

\* #resolveVariableChain
resolveVariableChain(str, variable, chain, st, d) ==
  IF d = 0 THEN Ret(StackOverflow, st)
  ELSE IF variable = "" THEN Ret(Str(str), st)
  ELSE IF inSeq(variable, chain) THEN Ret(cycleError(chain, variable), st)
  ELSE IF variable \in DOMAIN st.bank THEN cachedOrStr(str, variable, chain, st)
  ELSE Bind(invoke("resolveVariable", <<Str("$" \o variable)>>,
                   [st EXCEPT !.bank = (variable :> Undef) @@ @], d - 1), LAMBDA configValue :
    IF isThrow(configValue.v) THEN configValue
    ELSE IF configValue.v = Undef THEN Ret(Str(str), configValue.st)
    ELSE banked(str, variable, chain,
                invoke("translateVariables", <<configValue.v, Append(chain, variable)>>,
                       configValue.st, d - 1)))

\* value.replace(/(\{\{[\s\S]+?\}\})/mg, input => this.#evaluateLogicBlock(input))
replaceDirectives(s, i, out, st, d) ==
  IF i >= Len(s) THEN Ret(Str(out), st)
  ELSE IF directiveAt(s, i) < 0 THEN replaceDirectives(s, i + 1, out \o charAt(s, i), st, d)
  ELSE Bind(invoke("evaluateLogicBlock", <<slice(s, i, directiveAt(s, i))>>, st, d - 1), LAMBDA r :
    IF isThrow(r.v) THEN r
    ELSE replaceDirectives(s, directiveAt(s, i), out \o toString(r.v), r.st, d))

\* value.replace(/\$([a-zA-Z_][a-zA-Z0-9_\.]*)/g, (str, variable) => this.#resolveVariableChain(str, variable, chain))
replaceVariables(s, i, out, chain, st, d) ==
  IF i >= Len(s) THEN Ret(Str(out), st)
  ELSE IF variableAt(s, i) < 0 THEN replaceVariables(s, i + 1, out \o charAt(s, i), chain, st, d)
  ELSE Bind(invoke("resolveVariableChain",
                   <<slice(s, i, variableAt(s, i)), slice(s, i + 1, variableAt(s, i)), chain>>, st, d - 1),
            LAMBDA r :
    IF isThrow(r.v) THEN r
    ELSE replaceVariables(s, variableAt(s, i), out \o toString(r.v), chain, r.st, d))

\* return Utils.parsePrimitiveValue(value)
parsed(replaced) ==
  IF isThrow(replaced.v) THEN replaced ELSE Ret(parsePrimitiveValue(replaced.v), replaced.st)

\* #translateVariables (the trees of the model hold no arrays)
translateVariables(value, chain, st, d) ==
  IF d = 0 THEN Ret(StackOverflow, st)
  ELSE IF value.k = "str" THEN
    Bind(replaceDirectives(value.s, 0, "", st, d), LAMBDA blocks :
      IF isThrow(blocks.v) THEN blocks
      ELSE IF variableAt(value.s, 0) = Len(value.s) /\ trim(replaceFirst(blocks.v.s, value.s, "")) = ""
        THEN invoke("resolveVariableChain", <<value.s, sliceFrom(value.s, 1), chain>>, blocks.st, d - 1)
      ELSE parsed(replaceVariables(blocks.v.s, 0, "", chain, blocks.st, d)))
  ELSE Ret(parsePrimitiveValue(value), st)

\* the private methods by name
invoke(method, args, st, d) ==
  CASE method = "resolveVariable" -> resolveVariable(args[1], st, d)
    [] method = "evaluateNullishCoalesce" -> evaluateNullishCoalesce(args[1], st, d)
    [] method = "evalComparison" -> evalComparison(args[1], st, d)
    [] method = "evalLogical" -> evalLogical(args[1], st, d)
    [] method = "evaluateIfElseLogic" -> evaluateIfElseLogic(args[1], st, d)
    [] method = "evaluateLogicBlock" -> evaluateLogicBlock(args[1], st, d)
    [] method = "resolveVariableChain" -> resolveVariableChain(args[1], args[2], args[3], st, d)
    [] method = "translateVariables" -> translateVariables(args[1], args[2], st, d)

(***************************************************************************)
(* The public methods.  The result under construction is a tree of fresh    *)
(* objects whose leaves are primitives or Ref(p), the tree's own object     *)
(* at p; writing through such a leaf writes into the configuration tree.    *)
(***************************************************************************)
Placed(res, cfg, err) == [res |-> res, cfg |-> cfg, err |-> err]

\* the walk "if (!current[part]) current[part] = {}; current = current[part]"
\* and the final "current[last] = value", once current is the tree's object at p
RECURSIVE assignInTree(_, _, _, _)
assignInTree(cfg, p, parts, value) ==
  LET part == Head(parts)
      child == getProp(cfg, Ref(p), part)
      cfg1 == IF truthy(child) THEN cfg ELSE setAt(cfg, p, part, EmptyObject)
      current == IF truthy(child) THEN child ELSE Ref(Append(p, part))
  IN IF Len(parts) = 1
       THEN Placed(Ref(p), IF value = Ref(Append(p, part)) THEN cfg ELSE setAt(cfg, p, part, value), FALSE)
     ELSE IF current.k = "ref" THEN assignInTree(cfg1, current.p, Tail(parts), value)
     ELSE Placed(Ref(p), cfg1, TRUE)

\* an assembly that files every value under the first segment of its path
assignUnnested(node, parts, value, cfg) ==
  Placed(Obj((Head(parts) :> value) @@ node.f), cfg, FALSE)

\* the same walk while current is a fresh object of the result
RECURSIVE assignInResult(_, _, _, _)
assignInResult(node, parts, value, cfg) ==
  LET part == Head(parts)
      child == IF part \in DOMAIN node.f THEN node.f[part] ELSE Undef
      current == IF truthy(child) THEN child ELSE EmptyObject
      below == IF current.k = "obj" THEN assignInResult(current, Tail(parts), value, cfg)
               ELSE IF current.k = "ref" THEN assignInTree(cfg, current.p, Tail(parts), value)
               ELSE Placed(current, cfg, TRUE)
  IN IF Len(parts) = 1 THEN Placed(Obj((part :> value) @@ node.f), cfg, FALSE)
     ELSE Placed(Obj((part :> below.res) @@ node.f), below.cfg, below.err)

\* get(...keys)
RECURSIVE getKeys(_, _, _, _)
getKeys(keys, i, result, st) ==
  IF i > Len(keys) THEN Ret(result, st)
  ELSE Bind(translateVariables(resolveConfigPath(st.config, keys[i]), <<>>, st, MaxStack), LAMBDA value :
    IF isThrow(value.v) THEN value
    ELSE IF value.v = Undef THEN getKeys(keys, i + 1, result, value.st)
    ELSE Bind(assignInResult(result, split(keys[i], "."), value.v, value.st.config), LAMBDA placed :
      IF placed.err THEN Ret(PrimitiveAssign, [value.st EXCEPT !.config = placed.cfg])
      ELSE getKeys(keys, i + 1, placed.res, [value.st EXCEPT !.config = placed.cfg])))

get(keys, st) == getKeys(keys, 1, EmptyObject, st)

\* raw(...keys)
RECURSIVE rawKeys(_, _, _, _)
rawKeys(keys, i, result, st) ==
  IF i > Len(keys) THEN Ret(result, st)
  ELSE Bind(resolveConfigPath(st.config, keys[i]), LAMBDA value :
    IF value = Undef THEN rawKeys(keys, i + 1, result, st)
    ELSE Bind(assignInResult(result, split(keys[i], "."), value, st.config), LAMBDA placed :
      IF placed.err THEN Ret(PrimitiveAssign, [st EXCEPT !.config = placed.cfg])
      ELSE rawKeys(keys, i + 1, placed.res, [st EXCEPT !.config = placed.cfg])))

raw(keys, st) == rawKeys(keys, 1, EmptyObject, st)

\* What a caller sees of a returned value: the structure with every
\* reference into the tree followed (to depth n).
RECURSIVE view(_, _, _)
view(cfg, v, n) ==
  IF n = 0 THEN v
  ELSE IF v.k = "ref" THEN view(cfg, rawNode(cfg, v.p), n)
  ELSE IF v.k = "obj" THEN Obj([key \in DOMAIN v.f |-> view(cfg, v.f[key], n - 1)])
  ELSE v

\* hash(): Bun.hash(JSON.stringify(this.#config, void 0, 2)).toString(16).
\* The fingerprint is a function of the serialized content of the tree;
\* the model takes the content itself for the digest (no collisions).
hash(cfg) == [k |-> "hash", of |-> view(cfg, cfg, ViewDepth)]

\* constructor(config)
Config(cfg) == ensureObject(cfg, EmptyObject)

(***************************************************************************)
(* The configurations the model is run on.                                  *)
(***************************************************************************)
Directive(body) == Str("{{ " \o body \o " }}")

\* if (C1) then (B1) else if (C2) then (B2) ... else (E), as it is authored
RECURSIVE renderIf(_, _)
renderIf(ch, i) ==
  "if (" \o ch.conds[i].text \o ") then (" \o ch.blocks[i] \o ") else "
    \o (IF i = Len(ch.conds) THEN "(" \o ch.else \o ")" ELSE renderIf(ch, i + 1))

Holds == [text |-> "5 > 3", holds |-> TRUE]
Fails == [text |-> "5 < 3", holds |-> FALSE]
BlockNames == <<"one", "two", "three">>
Chain(conds) == [conds |-> conds, blocks |-> SubSeq(BlockNames, 1, Len(conds)), else |-> "other"]

\* the conditional directives of TreeLogic, by key
Conditionals ==
  [ift |-> Chain(<<Holds>>), iff |-> Chain(<<Fails>>),
   iftf |-> Chain(<<Holds, Fails>>), iftt |-> Chain(<<Holds, Holds>>),
   ifft |-> Chain(<<Fails, Holds>>), ifff |-> Chain(<<Fails, Fails>>)]

\* the operands of the nullish directives: a quoted literal or a reference,
\* with the value it stands for ("" when it stands for nothing)
Operand(text, value) == [text |-> text, value |-> value]
EmptyLiteral == Operand("\"\"", "")
XLiteral == Operand("\"x\"", "x")
FallbackLiteral == Operand("\"fallback\"", "fallback")
NameRef == Operand("$name", "bob")
MissingRef == Operand("$nowhere", "")

\* the nullish-coalescing directives of TreeLogic, by key
Coalesces ==
  [nel |-> <<EmptyLiteral, FallbackLiteral>>, nxl |-> <<XLiteral, FallbackLiteral>>,
   nmr |-> <<MissingRef, FallbackLiteral>>, nnr |-> <<NameRef, FallbackLiteral>>,
   nmn |-> <<MissingRef, NameRef>>]

renderCoalesce(pair) == pair[1].text \o " ?? " \o pair[2].text

TreeLogic ==
  Obj([key \in DOMAIN Conditionals |-> Directive(renderIf(Conditionals[key], 1))]
      @@ [key \in DOMAIN Coalesces |-> Directive(renderCoalesce(Coalesces[key]))]
      @@ [name |-> Str("bob")])

\* A and B, A or B, ...: operands joined at parenthesis depth 0, as authored
RECURSIVE renderFold(_, _)
renderFold(f, i) ==
  f.operands[i].text
    \o (IF i = Len(f.operands) THEN "" ELSE " " \o f.ops[i] \o " " \o renderFold(f, i + 1))

Fold(operands, ops) == [operands |-> operands, ops |-> ops]

\* the conditions of TreeFold, by key
Folds ==
  [tat |-> Fold(<<Holds, Holds>>, <<"and">>), taf |-> Fold(<<Holds, Fails>>, <<"and">>),
   fat |-> Fold(<<Fails, Holds>>, <<"and">>), faf |-> Fold(<<Fails, Fails>>, <<"and">>),
   tot |-> Fold(<<Holds, Holds>>, <<"or">>), fof |-> Fold(<<Fails, Fails>>, <<"or">>),
   fotaf |-> Fold(<<Fails, Holds, Fails>>, <<"or", "and">>)]

TreeFold ==
  Obj([key \in DOMAIN Folds |->
         Directive("if (" \o renderFold(Folds[key], 1) \o ") then (yes) else (no)")])

\* the malformed conditional directives of TreeMalformed, by key: no else
\* continuation, an else target without parentheses, a then-block that is
\* not closed, an else-block that is not closed (condition true and false)
Malformed ==
  [noelse |-> "if (5 > 3) then (one)",
   bare |-> "if (5 > 3) then (one) else other",
   openthen |-> "if (5 > 3) then (one else (other)",
   openelse |-> "if (5 > 3) then (one) else (other",
   openelsef |-> "if (5 < 3) then (one) else (other"]

TreeMalformed == Obj([key \in DOMAIN Malformed |-> Directive(Malformed[key])])

TreeBasic ==
  Obj([a |-> Obj([b |-> Num(1), c |-> Num(2)]),
       s |-> Obj([t |-> Str("$a.b"), u |-> Str("{{ $HOME ?? none }}")]),
       home |-> Str("$HOME"),
       via |-> Str("$s.u"),
       greet |-> Str("hi $s.t and $nowhere")])

TreeCycles ==
  Obj([a |-> Str("$a"),
       b |-> Str("$c"),
       c |-> Str("$b"),
       p |-> Str("see $b"),
       d |-> Str("{{ $d ?? x }}"),
       e |-> Str("{{ if ($e equals 1) then (x) else (y) }}"),
       ok |-> Str("$fine"),
       fine |-> Str("yes")])

Trees == {TreeBasic, TreeLogic, TreeFold, TreeMalformed, TreeCycles}
\* the trees without circular references
AcyclicTrees == {TreeBasic, TreeLogic, TreeFold, TreeMalformed}

Envs == {<<>>, [HOME |-> " /home/u "]}

RECURSIVE singletons(_)
singletons(S) ==
  IF S = {} THEN {} ELSE LET x == CHOOSE y \in S : TRUE IN {<<x>>} \cup singletons(S \ {x})

\* the argument lists of get
KeyLists(t) ==
  IF t = TreeBasic
    THEN singletons({"a", "a.b", "s.t", "s.u", "home", "via", "greet", "missing.path"})
         \cup {<<"a.b", "a.c">>, <<"s", "s.t">>, <<"s.t", "s">>, <<"a.b", "missing.path">>}
  ELSE IF t = TreeLogic
    THEN singletons(DOMAIN Conditionals \cup DOMAIN Coalesces)
  ELSE IF t = TreeFold THEN singletons(DOMAIN Folds)
  ELSE IF t = TreeMalformed THEN singletons(DOMAIN Malformed)
  ELSE singletons({"a", "b", "p", "d", "e", "ok"})

\* the argument lists of raw
RawKeyLists(t) ==
  IF t = TreeBasic
    THEN {<<"s">>, <<"s.t">>, <<"s.u">>, <<"missing.path">>, <<"a.b", "a.c">>}
  ELSE IF t = TreeLogic THEN {<<"ift">>, <<"nel">>}
  ELSE IF t = TreeFold THEN {<<"fat">>}
  ELSE IF t = TreeMalformed THEN {<<"openelse">>}
  ELSE {<<"a">>, <<"d">>}

\* the environments a tree is read in: only TreeBasic refers to the environment
EnvsOf(t) == IF t = TreeBasic THEN Envs ELSE {<<>>}

(***************************************************************************)
(* The loader: exists, load and write as asynchronous functions.  Every     *)
(* await is a point where another call may run.                             *)
(***************************************************************************)
\* concurrent calls
NumProcs == 2
Procs == 1 .. NumProcs

NoFile == [k |-> "nofile"]
\* name@version, for one name and explicit versions
Keys == {"app@v1", "app@v2"}
\* the artifact present before any call
Authored == [k |-> "toml", of |-> 0]
\* Toml.stringify(preset) of the preset that call p writes
Preset(p) == [k |-> "toml", of |-> p]

Idle == [pc |-> "idle"]
NoSuchDirectory == Throwable("ReferenceError", "'.config': No such directory", "Create a '.config' in the root of your project folder")
NoSuchFile == Throwable("ReferenceError", "No such file", "Make sure you either created the file manual or used ConfLoader.write/ConfLoader.migrate before loading the config.")
OverwriteRefused == Throwable("IOError", "Tried to overwrite", "If this was intentional include the field allowOverwrites: true in your WriteOptions.")

Finish(p, result) == procs' = [procs EXCEPT ![p] = [@ EXCEPT !.pc = "done"] @@ [result |-> result]]
Goto(p, pc) == procs' = [procs EXCEPT ![p].pc = pc]

\* write({ name, version, preset, allowOverwrites }) up to its first await,
\* the directory stat inside exists()
StartWrite ==
  \E p \in Procs :
    /\ procs[p].pc = "idle"
    /\ \E key \in Keys, allow \in BOOLEAN :
         procs' = [procs EXCEPT ![p] =
                     [pc |-> "exists_dir", op |-> "write", key |-> key, allow |-> allow,
                      existed |-> files[key] # NoFile]]
    /\ UNCHANGED <<files, configDir, ConfigCache, temps, created>>
    /\ UNCHANGED configVars

\* load(name, version) up to "await VersionManager.resolve"
StartLoad ==
  \E p \in Procs :
    /\ procs[p].pc = "idle"
    /\ \E key \in Keys :
         procs' = [procs EXCEPT ![p] =
                     [pc |-> "load_resolve", op |-> "load", key |-> key]]
    /\ UNCHANGED <<files, configDir, ConfigCache, temps, created>>
    /\ UNCHANGED configVars

\* load: the cache test, then either the cached instance or the call of exists
LoadResolved ==
  \E p \in Procs :
    /\ procs[p].pc = "load_resolve"
    /\ IF procs[p].key \in DOMAIN ConfigCache
         THEN Finish(p, ConfigCache[procs[p].key])
         ELSE Goto(p, "exists_dir")
    /\ UNCHANGED <<files, configDir, ConfigCache, temps, created>>
    /\ UNCHANGED configVars

\* exists: "if (!(await configDirExists())) throw", then "await VersionManager.resolve"
ExistsDir ==
  \E p \in Procs :
    /\ procs[p].pc = "exists_dir"
    /\ IF configDir THEN Goto(p, "exists_resolve") ELSE Finish(p, NoSuchDirectory)
    /\ UNCHANGED <<files, configDir, ConfigCache, temps, created>>
    /\ UNCHANGED configVars

\* exists: the cache test, then "await ConfigFile.stat()"
ExistsResolved ==
  \E p \in Procs :
    /\ procs[p].pc = "exists_resolve"
    /\ IF procs[p].key \in DOMAIN ConfigCache
         THEN procs' = [procs EXCEPT ![p] = [@ EXCEPT !.pc = "after_exists"] @@ [found |-> TRUE]]
         ELSE Goto(p, "exists_stat")
    /\ UNCHANGED <<files, configDir, ConfigCache, temps, created>>
    /\ UNCHANGED configVars

\* exists: the stat of the artifact
ExistsStat ==
  \E p \in Procs :
    /\ procs[p].pc = "exists_stat"
    /\ procs' = [procs EXCEPT ![p] =
                   [@ EXCEPT !.pc = "after_exists"] @@ [found |-> files[procs[p].key] # NoFile]]
    /\ UNCHANGED <<files, configDir, ConfigCache, temps, created>>
    /\ UNCHANGED configVars

\* write: "if (await exists(...) && !allowOverwrites) throw", then Bun.write begins
WriteChecked ==
  \E p \in Procs :
    /\ procs[p].pc = "after_exists"
    /\ procs[p].op = "write"
    /\ IF procs[p].found /\ ~procs[p].allow THEN Finish(p, OverwriteRefused) ELSE Goto(p, "stage")
    /\ UNCHANGED <<files, configDir, ConfigCache, temps, created>>
    /\ UNCHANGED configVars

\* write: await Bun.write(tempPath, Toml.stringify(preset), { createPath: true })
WriteStaged ==
  \E p \in Procs :
    /\ procs[p].pc = "stage"
    /\ temps' = [temps EXCEPT ![p] = Preset(p)]
    /\ configDir' = TRUE
    /\ Goto(p, "rename")
    /\ UNCHANGED <<files, ConfigCache, created>>
    /\ UNCHANGED configVars

\* write: await rename(tempPath, configPath)
WriteRenamed ==
  \E p \in Procs :
    /\ procs[p].pc = "rename"
    /\ files' = [files EXCEPT ![procs[p].key] = temps[p]]
    /\ temps' = [temps EXCEPT ![p] = NoFile]
    /\ Goto(p, "cleanup")
    /\ UNCHANGED <<configDir, ConfigCache, created>>
    /\ UNCHANGED configVars

\* write: finally { if (await tmpFile.exists()) await tmpFile.delete() }
WriteCleaned ==
  \E p \in Procs :
    /\ procs[p].pc = "cleanup"
    /\ temps' = [temps EXCEPT ![p] = NoFile]
    /\ Finish(p, Undef)
    /\ UNCHANGED <<files, configDir, ConfigCache, created>>
    /\ UNCHANGED configVars

\* load: "if (!await exists(...)) throw", then "await ConfigFile.text()" begins
LoadChecked ==
  \E p \in Procs :
    /\ procs[p].pc = "after_exists"
    /\ procs[p].op = "load"
    /\ IF procs[p].found THEN Goto(p, "text") ELSE Finish(p, NoSuchFile)
    /\ UNCHANGED <<files, configDir, ConfigCache, temps, created>>
    /\ UNCHANGED configVars

\* load: ConfigCache.set(cacheKey, new Config(Toml.parse(text))); return ConfigCache.get(cacheKey)
LoadStored ==
  \E p \in Procs :
    /\ procs[p].pc = "text"
    /\ LET instance == [k |-> "config", id |-> created + 1, text |-> files[procs[p].key]]
       IN /\ ConfigCache' = (procs[p].key :> instance) @@ ConfigCache
          /\ Finish(p, instance)
    /\ created' = created + 1
    /\ UNCHANGED <<files, configDir, temps>>
    /\ UNCHANGED configVars

(***************************************************************************)
(* One Config instance and the calls made on it.                            *)
(***************************************************************************)
State == [config |-> config, bank |-> bank, deps |-> dependencies, reads |-> envReads]

Returned(op, keys, r) ==
  [op |-> op, keys |-> keys,
   out |-> IF isThrow(r.v) THEN r.v ELSE view(r.st.config, r.v, ViewDepth)]

\* the loader at rest
LoaderIdle ==
  /\ files = [key \in Keys |-> NoFile]
  /\ configDir = FALSE
  /\ ConfigCache = <<>>
  /\ temps = [p \in Procs |-> NoFile]
  /\ procs = [p \in Procs |-> Idle]
  /\ created = 0

Init ==
  /\ tree \in Trees
  /\ env \in EnvsOf(tree)
  /\ config = Config(tree)
  /\ bank = <<>>
  /\ dependencies = <<>>
  /\ envReads = <<>>
  /\ calls = <<>>
  /\ LoaderIdle

Apply(op, keys, r) ==
  /\ config' = r.st.config
  /\ bank' = r.st.bank
  /\ dependencies' = r.st.deps
  /\ envReads' = r.st.reads
  /\ calls' = Append(calls, Returned(op, keys, r))
  /\ UNCHANGED <<env, tree>>
  /\ UNCHANGED loaderVars

Get ==
  /\ Len(calls) < MaxCalls
  /\ \E keys \in KeyLists(tree) : Apply("get", keys, get(keys, State))

Raw ==
  /\ Len(calls) < MaxCalls
  /\ \E keys \in RawKeyLists(tree) : Apply("raw", keys, raw(keys, State))

Hash ==
  /\ Len(calls) < MaxCalls
  /\ calls' = Append(calls, [op |-> "hash", keys |-> <<>>, out |-> hash(config)])
  /\ UNCHANGED <<config, bank, dependencies, env, envReads, tree>>
  /\ UNCHANGED loaderVars

Next == Get \/ Raw \/ Hash

vars == <<config, bank, dependencies, env, envReads, tree, calls,
          files, configDir, ConfigCache, temps, procs, created>>

Spec == Init /\ [][Next]_vars

(***************************************************************************)
(* The loader on its own: concurrent load and write calls.                  *)
(***************************************************************************)
LoaderInit ==
  /\ tree = EmptyObject
  /\ env = <<>>
  /\ config = Config(tree)
  /\ bank = <<>>
  /\ dependencies = <<>>
  /\ envReads = <<>>
  /\ calls = <<>>
  /\ files \in [Keys -> {NoFile, Authored}]
  /\ configDir \in BOOLEAN
  /\ (\E key \in Keys : files[key] # NoFile) => configDir
  /\ ConfigCache = <<>>
  /\ temps = [p \in Procs |-> NoFile]
  /\ procs = [p \in Procs |-> Idle]
  /\ created = 0

LoaderNext ==
  \/ StartWrite
  \/ StartLoad
  \/ LoadResolved
  \/ ExistsDir
  \/ ExistsResolved
  \/ ExistsStat
  \/ WriteChecked
  \/ WriteStaged
  \/ WriteRenamed
  \/ WriteCleaned
  \/ LoadChecked
  \/ LoadStored

LoaderSpec == LoaderInit /\ [][LoaderNext]_vars

(***************************************************************************)
(* Properties of the Config instance (specification Spec).                  *)
(***************************************************************************)
Calls == 1 .. Len(calls)
Parts(key) == split(key, ".")

\* the value found in a returned structure at a path
RECURSIVE at(_, _)
at(v, parts) ==
  IF Len(parts) = 0 THEN v
  ELSE IF v.k = "obj" /\ Head(parts) \in DOMAIN v.f THEN at(v.f[Head(parts)], Tail(parts))
  ELSE Undef

isGetOf(c, key) == c.op = "get" /\ c.keys = <<key>>

\* the same single path was asked for twice of a fresh instance
SameGetTwice ==
  /\ Len(calls) = 2
  /\ calls[1].op = "get" /\ calls[2].op = "get"
  /\ Len(calls[1].keys) = 1
  /\ calls[1].keys = calls[2].keys

\* C1: on a tree without circular references, get(p) called twice on one
\* instance returns the same result both times and every environment
\* variable reached from p is looked up at most once over both calls.
C1_EvaluatedOnce ==
  (tree \in AcyclicTrees /\ SameGetTwice) =>
    /\ calls[1].out = calls[2].out
    /\ \A name \in DOMAIN envReads : envReads[name] <= 1

\* The chain of plain `$` references that starts at a variable, up to and
\* including the first path it revisits; <<>> when the chain ends instead.
\* A value holding a directive block is not a plain reference.
RECURSIVE firstReference(_, _)
firstReference(str, i) ==
  IF i >= Len(str) THEN ""
  ELSE IF variableAt(str, i) >= 0 THEN slice(str, i + 1, variableAt(str, i))
  ELSE firstReference(str, i + 1)

plainReference(t, path) ==
  LET value == resolveConfigPath(t, path)
  IN IF value.k = "str" /\ ~includes(value.s, "{{") THEN firstReference(value.s, 0) ELSE ""

RECURSIVE referenceCycle(_, _, _)
referenceCycle(t, variable, chain) ==
  IF inSeq(variable, chain) THEN Append(chain, variable)
  ELSE IF plainReference(t, variable) = "" THEN <<>>
  ELSE referenceCycle(t, plainReference(t, variable), Append(chain, variable))

CycleFrom(t, key) ==
  IF plainReference(t, key) = "" THEN <<>> ELSE referenceCycle(t, plainReference(t, key), <<>>)

FirstGetOfCycle ==
  /\ Len(calls) >= 1
  /\ calls[1].op = "get"
  /\ Len(calls[1].keys) = 1
  /\ CycleFrom(tree, calls[1].keys[1]) # <<>>

C3_TreeNeverMutated ==
  /\ config = Config(tree)
  /\ \A i \in Calls : calls[i].op = "hash" => calls[i].out = hash(tree)

LastCall == calls'[Len(calls')]
Called(op) == Len(calls') = Len(calls) + 1 /\ LastCall.op = op

\* C4: in every reachable state raw returns, for each requested path, the
\* value stored at the path in the tree as authored, and a raw call leaves
\* the memo cache and the dependency graph unchanged.
C4_RawAsAuthored ==
  [][Called("raw") =>
       /\ \A i \in 1 .. Len(LastCall.keys) :
            at(LastCall.out, Parts(LastCall.keys[i]))
              = view(tree, resolveConfigPath(tree, LastCall.keys[i]), ViewDepth)
       /\ bank' = bank
       /\ dependencies' = dependencies]_vars

isPrefix(p, q) == Len(p) <= Len(q) /\ SubSeq(q, 1, Len(p)) = p

\* the paths of all the nodes of a returned structure
RECURSIVE nodePaths(_)
nodePaths(v) ==
  IF v.k = "obj"
  THEN UNION {{<<key>>} \cup {<<key>> \o q : q \in nodePaths(v.f[key])} : key \in DOMAIN v.f}
  ELSE {}

present(key) == resolveConfigPath(config, key) # Undef
resolvedValue(key) ==
  Bind(translateVariables(resolveConfigPath(config, key), <<>>, State, MaxStack),
       LAMBDA r : view(r.st.config, r.v, ViewDepth))

isProperPrefix(p, q) == isPrefix(p, q) /\ p # q

\* a value found at a path, blanked at the paths in holes
RECURSIVE masked(_, _, _)
masked(v, path, holes) ==
  IF path \in holes THEN [k |-> "requested"]
  ELSE IF v.k = "obj" THEN Obj([key \in DOMAIN v.f |-> masked(v.f[key], Append(path, key), holes)])
  ELSE v

\* the requested paths that lie below the i-th one
RequestedBelow(keys, i) ==
  {Parts(keys[j]) : j \in {n \in 1 .. Len(keys) : isProperPrefix(Parts(keys[i]), Parts(keys[n]))}}

\* The structure c.out holds, at each requested path that is present, the
\* resolved value of the path (what lies at a requested sub-path being that
\* sub-path's own concern), at each requested path that is absent nothing, and
\* no node that is not on or below a requested path.
ExactlyRequested(c) ==
  /\ \A i \in 1 .. Len(c.keys) :
       masked(at(c.out, Parts(c.keys[i])), Parts(c.keys[i]), RequestedBelow(c.keys, i))
         = IF present(c.keys[i])
           THEN masked(resolvedValue(c.keys[i]), Parts(c.keys[i]), RequestedBelow(c.keys, i))
           ELSE Undef
  /\ \A q \in nodePaths(c.out) :
       \E i \in 1 .. Len(c.keys) :
          /\ present(c.keys[i])
          /\ isPrefix(q, Parts(c.keys[i])) \/ isPrefix(Parts(c.keys[i]), q)

\* no requested path is followed by one of its own proper prefixes
NoLaterPrefix(keys) ==
  \A i, j \in 1 .. Len(keys) :
     i < j => ~isProperPrefix(Parts(keys[j]), Parts(keys[i]))

\* C5 (as claimed): get(p1, ..., pn) returns a nested structure holding, for
\* every requested path present in the tree, the resolved value at the
\* nesting of the path's segments, and nothing else.
C5_ExactlyRequested ==
  [][(Called("get") /\ ~isThrow(LastCall.out)) => ExactlyRequested(LastCall)]_vars

\* C5 (amended): the same, for argument lists in which no requested path is
\* followed by one of its own proper prefixes.
C5_ExactlyRequestedInOrder ==
  [][(Called("get") /\ ~isThrow(LastCall.out) /\ NoLaterPrefix(LastCall.keys))
       => ExactlyRequested(LastCall)]_vars

\* get("a.b", "missing.path") on {a: {b: 1, c: 2}, ...} returned {a: {b: 1}}
C5_Witness ==
  \E i \in Calls :
     /\ calls[i].op = "get"
     /\ calls[i].keys = <<"a.b", "missing.path">>
     /\ calls[i].out = Obj([a |-> Obj([b |-> Num(1)])])

\* the block of the first condition of the chain that holds, else the else block
RECURSIVE selected(_, _)
selected(ch, i) ==
  IF i > Len(ch.conds) THEN ch.else
  ELSE IF ch.conds[i].holds THEN ch.blocks[i]
  ELSE selected(ch, i + 1)

\* C6: a well-formed conditional directive evaluates to the block of the
\* first condition in the chain that holds, and to the final else block when
\* none holds.
C6_FirstHoldingBranch ==
  \A i \in Calls : \A key \in DOMAIN Conditionals :
     (tree = TreeLogic /\ isGetOf(calls[i], key)) =>
        calls[i].out = Obj((key :> Str(selected(Conditionals[key], 1))))

\* C7: {{ LEFT ?? RIGHT }} evaluates to the value of LEFT when LEFT resolves
\* to a non-empty value and otherwise to the value of RIGHT; an empty quoted
\* literal on the left counts as empty.
C7_LeftUnlessEmpty ==
  \A i \in Calls : \A key \in DOMAIN Coalesces :
     (tree = TreeLogic /\ isGetOf(calls[i], key)) =>
        calls[i].out = Obj((key :> Str(IF Coalesces[key][1].value # ""
                                       THEN Coalesces[key][1].value
                                       ELSE Coalesces[key][2].value)))

\* the strict left-to-right fold of the operands of a condition: the first
\* operand seeds the running result, `and` conjoins and `or` disjoins the next
RECURSIVE folded(_, _, _)
folded(f, i, running) ==
  IF i > Len(f.operands) THEN running
  ELSE IF f.ops[i - 1] = "and" THEN folded(f, i + 1, running /\ f.operands[i].holds)
  ELSE folded(f, i + 1, running \/ f.operands[i].holds)

\* C11: a condition of operands joined by `and`/`or` at parenthesis depth 0
\* evaluates to the strict left-to-right fold of its operands; in particular
\* `A and B` is true only when both A and B are true.
C11_LeftToRightFold ==
  \A i \in Calls : \A key \in DOMAIN Folds :
     (tree = TreeFold /\ isGetOf(calls[i], key)) =>
        calls[i].out = Obj((key :> Str(IF folded(Folds[key], 2, Folds[key].operands[1].holds)
                                       THEN "yes" ELSE "no")))

\* C12: a malformed conditional directive (no else continuation, an else
\* target without parentheses, a then-block or an else-block whose
\* parentheses are not closed) is never evaluated: get raises no error and
\* returns the inner content of the directive verbatim.
C12_MalformedPassedThrough ==
  \A i \in Calls : \A key \in DOMAIN Malformed :
     (tree = TreeMalformed /\ isGetOf(calls[i], key)) =>
        calls[i].out = Obj((key :> Str(Malformed[key])))

isCycleError(out) ==
  isThrow(out) /\ out.name = "ReferenceError" /\ out.message = "Circular dependency detected"

\* C13: a get that fails with the cycle error leaves the memo cache as it
\* was before the call, and every later get of the same path on the same
\* instance fails with the same cycle error.
C13_FailedGetLeavesBank ==
  [][Called("get") =>
       /\ isCycleError(LastCall.out) => bank' = bank
       /\ \A i \in Calls :
            (calls[i].op = "get" /\ calls[i].keys = LastCall.keys /\ isCycleError(calls[i].out))
              => LastCall.out = calls[i].out]_vars

\* C10: every get terminates with a result or with the cycle error; a
\* circular reference never exhausts the stack.
C10_ReturnsOrCycleError ==
  \A i \in Calls :
     calls[i].op = "get" =>
        \/ ~isThrow(calls[i].out)
        \/ /\ calls[i].out.name = "ReferenceError"
           /\ calls[i].out.message = "Circular dependency detected"

(***************************************************************************)
(* Properties of the loader (specification LoaderSpec).                     *)
(***************************************************************************)
Renames(p) == procs[p].pc = "rename" /\ procs'[p].pc = "cleanup"
Finishes(p) == procs[p].pc # "done" /\ procs'[p].pc = "done"

\* C8: a write without allowOverwrites for an artifact that exists fails
\* with an IO error and leaves the content unchanged; under any interleaving
\* an existing artifact is never replaced by a write without the permission.
C8_NoOverwriteWithoutPermission ==
  [][\A p \in Procs :
       /\ (Renames(p) /\ files[procs[p].key] # NoFile) => procs[p].allow
       /\ (Finishes(p) /\ procs[p].op = "write" /\ procs[p].existed /\ ~procs[p].allow)
            => (procs'[p].result = OverwriteRefused /\ files' = files)]_vars

LoadedBy(p) == procs[p].pc = "done" /\ procs[p].op = "load" /\ ~isThrow(procs[p].result)

\* C9: for a given name+version every load call returns the same Config
\* instance; the instance the first successful load stored is never replaced.
C9_OneInstancePerKey ==
  [][/\ \A key \in DOMAIN ConfigCache : ConfigCache'[key] = ConfigCache[key]
     /\ \A p, q \in Procs :
          (LoadedBy(p) /\ LoadedBy(q) /\ procs[p].key = procs[q].key)
            => procs[p].result = procs[q].result]_vars

====
